---- MODULE Spec2Model ----
(***************************************************************************)
(* Model of talevy/polyline, src/lib.rs: Polyline::simplify and the        *)
(* stages it calls (simplify_radial_dist, simplify_douglas_peucker, the    *)
(* inline near-duplicate pass) and Point::sq_seg_dist.                     *)
(*                                                                         *)
(* Numbers.  Coordinates and the tolerance are multiples of 1/Grid, held   *)
(* as integers.  Squared distances are then integers in units of 1/Grid^2, *)
(* and the one value sq_seg_dist obtains by a division (the projection     *)
(* parameter t) is kept as an exact fraction <<numerator, denominator>>.   *)
(* f64 rounding is not modelled: every distance is the exact rational      *)
(* value of the expression the code evaluates.                             *)
(*                                                                         *)
(* Indices are 0-based as in the source; a TLA+ sequence s holds index i   *)
(* at s[i + 1].                                                            *)
(***************************************************************************)
EXTENDS Integers, Sequences, FiniteSets, TLC

(* ------------------------------ bounds -------------------------------- *)
\* coordinates and tolerances are multiples of 1/Grid
Grid == 400
\* x coordinates range over 0..MaxX (in units of 1/Grid)
MaxX == 1
\* longest input polyline
MaxLen == 4
\* tolerances range over 0..MaxTol (in units of 1/Grid)
MaxTol == 2

(* -------------------------- program constants ------------------------- *)
\* lib.rs:159  `d > 0.000009`, 0.000009 = EpsNum / EpsDen
EpsNum == 9
EpsDen == 1000000
\* lib.rs:90-91  indices are usize; TLC integers are 32 bit, so the width
\* of the narrowest target (16 bit) is used.  Only "the wrapped value is
\* larger than every length" matters below.
UsizeBits == 16
UsizeModulus == 2 ^ UsizeBits

VARIABLES points, tolerance, highest_quality, pc, dp_points, stack,
          keep_elem_vec, poly, result

vars == <<points, tolerance, highest_quality, pc, dp_points, stack,
          keep_elem_vec, poly, result>>

(* ------------------------------- Point -------------------------------- *)
\* lib.rs:9-13.  Two rows of y are enough for inputs that are not collinear.
Point == [x : 0..MaxX, y : 0..1]

Tolerances == 0..MaxTol

RECURSIVE SeqsUpTo(_)
SeqsUpTo(n) ==
  IF n = 0 THEN {<<>>}
  ELSE LET shorter == SeqsUpTo(n - 1)
       IN shorter \cup {Append(s, p) : s \in {t \in shorter : Len(t) = n - 1}, p \in Point}

Polylines == SeqsUpTo(MaxLen)

\* fractions <<n, d>> with d > 0
FracGt(a, b) == a[1] * b[2] > b[1] * a[2]

\* lib.rs:137  tolerance.powi(2)
SqTolerance(t) == t * t

\* lib.rs:20-42  Point::sq_seg_dist, as a fraction
sq_seg_dist(self, p1, p2) ==
  LET dx == p2.x - p1.x
      dy == p2.y - p1.y
      tn == (self.x - p1.x) * dx + (self.y - p1.y) * dy
      td == dx * dx + dy * dy
  IN IF dx # 0 \/ dy # 0
     THEN IF tn > td            \* t > 1.0
          THEN <<(self.x - p2.x) * (self.x - p2.x) + (self.y - p2.y) * (self.y - p2.y), 1>>
          ELSE IF tn > 0        \* t > 0.0
               THEN LET ax == (self.x - p1.x) * td - dx * tn
                        ay == (self.y - p1.y) * td - dy * tn
                    IN <<ax * ax + ay * ay, td * td>>
               ELSE <<(self.x - p1.x) * (self.x - p1.x) + (self.y - p1.y) * (self.y - p1.y), 1>>
     ELSE <<(self.x - p1.x) * (self.x - p1.x) + (self.y - p1.y) * (self.y - p1.y), 1>>

(* ------------------------ simplify_radial_dist ------------------------ *)
\* lib.rs:80-84  the filter closure
RadialKeeps(pre, cur, sq_tolerance) ==
  LET dx == pre.x - cur.y
      dy == pre.y - cur.y
  IN (dx * dx + dy * dy) > sq_tolerance

RECURSIVE RadialFrom(_, _, _)
RadialFrom(pts, i, sq_tolerance) ==
  IF i >= Len(pts) THEN <<>>
  ELSE (IF RadialKeeps(pts[i], pts[i + 1], sq_tolerance) THEN <<pts[i]>> ELSE <<>>)
       \o RadialFrom(pts, i + 1, sq_tolerance)

\* lib.rs:77-87
simplify_radial_dist(pts, sq_tolerance) == RadialFrom(pts, 1, sq_tolerance)

(* ---------------------- simplify_douglas_peucker ---------------------- *)
\* lib.rs:91  self.points.len() - 1 in usize arithmetic (release build: wraps)
WrappingSub(a, b) == (a - b + UsizeModulus) % UsizeModulus

\* lib.rs:93  BitVec::from_elem(len, true)
FromElem(n) == [i \in 1..n |-> TRUE]

\* lib.rs:97  what stack.pop() leaves on the stack
\* (a pop that leaves the range on the stack)
StackPopMut(stk) == stk
StackPop(stk) == SubSeq(stk, 1, Len(stk) - 1)

\* lib.rs:97  the pair stack.pop() returns
StackTop(stk) == stk[Len(stk)]

\* lib.rs:102-113  the scan of one range.  keep.get(i) is None for an index
\* past the bit vector, so those iterations do nothing and are cut off.
RECURSIVE ScanLoop(_, _, _, _, _, _)
ScanLoop(pts, keep, start_idx, end_idx, i, best) ==
  IF i >= end_idx \/ i >= Len(keep) THEN best
  ELSE IF keep[i + 1]
       THEN LET seg_dist == sq_seg_dist(pts[i + 1], pts[start_idx + 1], pts[end_idx + 1])
            IN IF FracGt(seg_dist, best.dmax)
               THEN ScanLoop(pts, keep, start_idx, end_idx, i + 1,
                             [dmax |-> seg_dist, max_idx |-> i])
               ELSE ScanLoop(pts, keep, start_idx, end_idx, i + 1, best)
       ELSE ScanLoop(pts, keep, start_idx, end_idx, i + 1, best)

\* lib.rs:99-113
Scan(pts, keep, start_idx, end_idx) ==
  ScanLoop(pts, keep, start_idx, end_idx, start_idx + 1,
           [dmax |-> <<0, 1>>, max_idx |-> start_idx])

\* lib.rs:115
Exceeds(dmax, sq_tolerance) == FracGt(dmax, <<sq_tolerance, 1>>)

\* lib.rs:119  the indices of `(start_idx + 1)..end_idx`
\* (a range that starts one index early: `start_idx..end_idx`)
InDiscardRangeMut(start_idx, end_idx, i) == start_idx <= i /\ i < end_idx
InDiscardRange(start_idx, end_idx, i) == start_idx + 1 <= i /\ i < end_idx

\* lib.rs:120  BitVec::set panics on an index that is not below its length
DiscardPanics(keep, start_idx, end_idx) ==
  start_idx + 1 < end_idx /\ end_idx - 1 >= Len(keep)

\* lib.rs:119-121
Discard(keep, start_idx, end_idx) ==
  [j \in 1..Len(keep) |-> IF InDiscardRange(start_idx, end_idx, j - 1) THEN FALSE ELSE keep[j]]

\* lib.rs:96-123  one iteration of the while loop
DPStep(pts, sq_tolerance, stk, keep) ==
  LET top == StackTop(stk)
      rest == StackPop(stk)
      best == Scan(pts, keep, top[1], top[2])
  IN IF Exceeds(best.dmax, sq_tolerance)
     THEN [branch |-> "split", keep |-> keep,
           stack |-> rest \o << <<top[1], best.max_idx>>, <<best.max_idx, top[2]>> >>]
     ELSE IF DiscardPanics(keep, top[1], top[2])
          THEN [branch |-> "panic", keep |-> keep, stack |-> rest]
          ELSE [branch |-> "discard", keep |-> Discard(keep, top[1], top[2]), stack |-> rest]

\* lib.rs:125-129
RECURSIVE CollectFrom(_, _, _)
CollectFrom(pts, keep, i) ==
  IF i > Len(pts) THEN <<>>
  ELSE (IF i <= Len(keep) /\ keep[i] THEN <<pts[i]>> ELSE <<>>) \o CollectFrom(pts, keep, i + 1)

Collect(pts, keep) == CollectFrom(pts, keep, 1)

(* ---------------------- the near-duplicate pass ----------------------- *)
\* lib.rs:155-159  d > 0.000009, with d in units of 1/Grid^2
CollapseKeeps(p, q) ==
  LET dx == p.x - q.x
      dy == p.y - q.y
      d == dx * dx + dy * dy
  IN d * EpsDen > EpsNum * Grid * Grid

\* lib.rs:160
\* (a push of the last kept point instead of the candidate)
CollapsePushMut(keep, p, q) == Append(keep, q)
CollapsePush(keep, p, q) == Append(keep, p)

\* lib.rs:154-163
RECURSIVE CollapseLoop(_, _, _, _)
CollapseLoop(pts, i, q, keep) ==
  IF i > Len(pts) THEN keep
  ELSE IF CollapseKeeps(pts[i], q)
       THEN CollapseLoop(pts, i + 1, pts[i], CollapsePush(keep, pts[i], q))
       ELSE CollapseLoop(pts, i + 1, q, keep)

\* lib.rs:149-165, for the sequence the pass walks (it.next().unwrap() needs one point)
Collapse(pts) == CollapseLoop(pts, 2, pts[1], <<pts[1]>>)

\* lib.rs:150  the sequence the pass walks: self.points, not the reducer's output
\* (a pass that walks the reducer's output)
CollapseInputMut(self_points, reduced) == reduced
CollapseInput(self_points, reduced) == self_points

(* ------------------------------ simplify ------------------------------ *)
\* lib.rs:133
\* (a short-circuit for fewer than two points only)
ShortCircuitMut(pts) == Len(pts) < 2
ShortCircuit(pts) == Len(pts) <= 2

\* lib.rs:141-145  the sequence handed to simplify_douglas_peucker
PreStage(pts, t, q) ==
  IF q THEN pts ELSE simplify_radial_dist(pts, SqTolerance(t))

\* lib.rs:96-123  the while loop run to its end: the final bit vector, or a panic
RECURSIVE DPLoop(_, _, _, _)
DPLoop(pts, sq_tolerance, stk, keep) ==
  IF stk = <<>> THEN [panic |-> FALSE, keep |-> keep]
  ELSE LET r == DPStep(pts, sq_tolerance, stk, keep)
       IN IF r.branch = "panic" THEN [panic |-> TRUE, keep |-> keep]
          ELSE DPLoop(pts, sq_tolerance, r.stack, r.keep)

\* lib.rs:89-130  simplify_douglas_peucker as a function; on the empty
\* sequence both builds panic (at line 91, or at line 120 after the wrap)
simplify_douglas_peucker(pts, sq_tolerance) ==
  IF Len(pts) = 0 THEN [panic |-> TRUE, points |-> <<>>]
  ELSE LET r == DPLoop(pts, sq_tolerance, << <<0, Len(pts) - 1>> >>, FromElem(Len(pts)))
       IN [panic |-> r.panic, points |-> Collect(pts, r.keep)]

\* lib.rs:132-166  simplify as a function: whether it panics, and what it returns
simplify(pts, t, q) ==
  IF ShortCircuit(pts) THEN [panic |-> FALSE, points |-> pts]
  ELSE LET reduced == simplify_douglas_peucker(PreStage(pts, t, q), SqTolerance(t))
       IN IF reduced.panic THEN [panic |-> TRUE, points |-> <<>>]
          ELSE [panic |-> FALSE, points |-> Collapse(CollapseInput(pts, reduced.points))]

TypeOK ==
  /\ points \in Polylines
  /\ tolerance \in Tolerances
  /\ highest_quality \in BOOLEAN
  /\ pc \in {"start", "dp", "done", "abort"}

Init ==
  /\ points \in Polylines
  /\ tolerance \in Tolerances
  /\ highest_quality \in BOOLEAN
  /\ pc = "start"
  /\ dp_points = <<>>
  /\ stack = <<>>
  /\ keep_elem_vec = <<>>
  /\ poly = <<>>
  /\ result = <<>>

\* lib.rs:133-135
SimplifyShort ==
  /\ pc = "start"
  /\ ShortCircuit(points)
  /\ result' = points
  /\ pc' = "done"
  /\ UNCHANGED <<points, tolerance, highest_quality, dp_points, stack, keep_elem_vec, poly>>

\* lib.rs:137-145 and 90-93: the pre-stage, then the reducer's set-up on a
\* sequence that holds at least one point
SimplifyEnter ==
  /\ pc = "start"
  /\ ~ShortCircuit(points)
  /\ LET pre == PreStage(points, tolerance, highest_quality)
     IN /\ Len(pre) > 0
        /\ dp_points' = pre
        /\ stack' = << <<0, Len(pre) - 1>> >>
        /\ keep_elem_vec' = FromElem(Len(pre))
  /\ pc' = "dp"
  /\ UNCHANGED <<points, tolerance, highest_quality, poly, result>>

\* lib.rs:91 on an empty sequence, overflow checks on (debug build):
\* `attempt to subtract with overflow`
SimplifyEnterEmptyChecked ==
  /\ pc = "start"
  /\ ~ShortCircuit(points)
  /\ LET pre == PreStage(points, tolerance, highest_quality)
     IN /\ Len(pre) = 0
        /\ dp_points' = pre
  /\ pc' = "abort"
  /\ UNCHANGED <<points, tolerance, highest_quality, stack, keep_elem_vec, poly, result>>

\* lib.rs:91 on an empty sequence, overflow checks off (release build):
\* 0 - 1 wraps and the loop starts on the range (0, usize::MAX); its scan
\* finds no index inside the empty bit vector, so DPDiscardPanic follows
SimplifyEnterEmptyWrapped ==
  /\ pc = "start"
  /\ ~ShortCircuit(points)
  /\ LET pre == PreStage(points, tolerance, highest_quality)
     IN /\ Len(pre) = 0
        /\ dp_points' = pre
        /\ stack' = << <<0, WrappingSub(Len(pre), 1)>> >>
        /\ keep_elem_vec' = FromElem(Len(pre))
  /\ pc' = "dp"
  /\ UNCHANGED <<points, tolerance, highest_quality, poly, result>>

\* lib.rs:96-117  an iteration that splits its range
DPSplit ==
  /\ pc = "dp"
  /\ stack # <<>>
  /\ LET r == DPStep(dp_points, SqTolerance(tolerance), stack, keep_elem_vec)
     IN /\ r.branch = "split"
        /\ stack' = r.stack
        /\ keep_elem_vec' = r.keep
  /\ UNCHANGED <<points, tolerance, highest_quality, pc, dp_points, poly, result>>

\* lib.rs:96-122  an iteration that discards the interior of its range
DPDiscard ==
  /\ pc = "dp"
  /\ stack # <<>>
  /\ LET r == DPStep(dp_points, SqTolerance(tolerance), stack, keep_elem_vec)
     IN /\ r.branch = "discard"
        /\ stack' = r.stack
        /\ keep_elem_vec' = r.keep
  /\ UNCHANGED <<points, tolerance, highest_quality, pc, dp_points, poly, result>>

\* lib.rs:119-121  keep_elem_vec.set(i, false) past the bit vector panics
DPDiscardPanic ==
  /\ pc = "dp"
  /\ stack # <<>>
  /\ LET r == DPStep(dp_points, SqTolerance(tolerance), stack, keep_elem_vec)
     IN /\ r.branch = "panic"
        /\ stack' = r.stack
  /\ pc' = "abort"
  /\ UNCHANGED <<points, tolerance, highest_quality, dp_points, keep_elem_vec, poly, result>>

\* lib.rs:96 (the loop ends), 125-129 (the reducer's output) and 149-165
\* (the near-duplicate pass and the returned polyline)
SimplifyReturn ==
  /\ pc = "dp"
  /\ stack = <<>>
  /\ poly' = Collect(dp_points, keep_elem_vec)
  /\ result' = Collapse(CollapseInput(points, Collect(dp_points, keep_elem_vec)))
  /\ pc' = "done"
  /\ UNCHANGED <<points, tolerance, highest_quality, dp_points, stack, keep_elem_vec>>

Next ==
  \/ SimplifyShort
  \/ SimplifyEnter
  \/ SimplifyEnterEmptyChecked
  \/ SimplifyEnterEmptyWrapped
  \/ DPSplit
  \/ DPDiscard
  \/ DPDiscardPanic
  \/ SimplifyReturn

Spec == Init /\ [][Next]_vars

\* simplify is one synchronous call: once entered it runs until it returns
\* or panics
FairSpec == Init /\ [][Next]_vars /\ WF_vars(Next)

(* ----------------------------- properties ----------------------------- *)
Returned == pc = "done"

SqDist(p, q) == (p.x - q.x) * (p.x - q.x) + (p.y - q.y) * (p.y - q.y)

RECURSIVE IsSubseqFrom(_, _, _, _)
IsSubseqFrom(a, i, b, j) ==
  IF i > Len(a) THEN TRUE
  ELSE IF j > Len(b) THEN FALSE
  ELSE IF a[i] = b[j] THEN IsSubseqFrom(a, i + 1, b, j + 1)
  ELSE IsSubseqFrom(a, i, b, j + 1)

\* a is an order-preserving subsequence of b
IsSubseq(a, b) == IsSubseqFrom(a, 1, b, 1)

\* the stepwise run and the function agree on every returned polyline
StepsAgreeWithFunction ==
  /\ Returned => simplify(points, tolerance, highest_quality) = [panic |-> FALSE, points |-> result]
  /\ pc = "abort" => simplify(points, tolerance, highest_quality).panic

\* C1: a polyline of at most two points (the empty one included) is
\* returned unchanged, for every tolerance and both values of the flag.
C1_ShortUnchanged ==
  (Returned /\ Len(points) <= 2) => result = points

C1_Witness ==
  /\ Returned
  /\ Len(points) = 2
  /\ ~CollapseKeeps(points[2], points[1])
  /\ points[1] # points[2]
  /\ result = points

\* C2: for more than two points the returned polyline is the
\* near-duplicate pass applied to the reducer's output (poly), the reducer
\* having run on the pre-stage's output.
C2_CollapseOfReduced ==
  (Returned /\ Len(points) > 2) =>
     /\ poly = simplify_douglas_peucker(PreStage(points, tolerance, highest_quality),
                                        SqTolerance(tolerance)).points
     /\ result = Collapse(poly)

\* C3: for more than two points the returned polyline starts with the
\* input's first point and ends with the input's last point.
C3_EndpointsKept ==
  (Returned /\ Len(points) > 2) =>
     /\ result # <<>>
     /\ result[1] = points[1]
     /\ result[Len(result)] = points[Len(points)]

\* C4: whenever simplify returns, the returned points are an
\* order-preserving subsequence of the input, so no longer than the input.
C4_Subsequence ==
  Returned => (IsSubseq(result, points) /\ Len(result) <= Len(points))

C4_Witness ==
  /\ Returned
  /\ Len(points) > 2
  /\ Len(result) >= 2
  /\ Len(result) < Len(points)
  /\ IsSubseq(result, points)

\* the tolerance is so large that every point of pts is within it of every
\* chord between two points of pts
LargeTolerance(pts, t) ==
  \A i, a, b \in 1..Len(pts) : ~Exceeds(sq_seg_dist(pts[i], pts[a], pts[b]), SqTolerance(t))

\* C5: for more than two points and such a large tolerance the result
\* keeps only the input's first and last point: it holds at most two
\* points, each of them the input's first or last point, and no interior
\* point survives.
C5_LargeToleranceKeepsEnds ==
  (Returned /\ Len(points) > 2 /\ LargeTolerance(points, tolerance)) =>
     /\ Len(result) <= 2
     /\ \A k \in 1..Len(result) : result[k] \in {points[1], points[Len(points)]}

\* C6: simplify is total: it never panics, also when the radial pre-filter
\* drops every point.
C6_NeverAborts == pc # "abort"

SplitShape ==
  LET top == StackTop(stack)
  IN \E m \in (top[1] + 1)..(top[2] - 1) :
        stack' = SubSeq(stack, 1, Len(stack) - 1) \o << <<top[1], m>>, <<m, top[2]>> >>

\* the work still on the list: a range of length L >= 1 weighs 2L - 1, so
\* that its two parts (lengths L1 + L2 = L, both >= 1) weigh one less
RECURSIVE WorkLeft(_)
WorkLeft(stk) ==
  IF stk = <<>> THEN 0
  ELSE LET r == stk[Len(stk)]
       IN (IF r[2] > r[1] THEN 2 * (r[2] - r[1]) - 1 ELSE 1)
          + WorkLeft(SubSeq(stk, 1, Len(stk) - 1))

\* C8: on a non-empty input every iteration of the reducer's loop either
\* drops the popped range or replaces it by [start, maxIdx] and
\* [maxIdx, end] with start < maxIdx < end, so the work left strictly
\* decreases; no iteration panics, and the loop is left only with the work
\* list empty, simplify then returning: the reducer terminates.
C8_ReducerTerminates ==
  /\ [][(pc = "dp" /\ dp_points # <<>>) =>
          /\ pc' = "dp" => WorkLeft(stack') < WorkLeft(stack)
          /\ Len(stack') > Len(stack) => SplitShape
          /\ pc' # "dp" => (stack = <<>> /\ pc' = "done")]_vars
  /\ []((pc = "dp" /\ dp_points # <<>> /\ stack # <<>>) =>
        DPStep(dp_points, SqTolerance(tolerance), stack, keep_elem_vec).branch # "panic")

\* C8 as a liveness property of FairSpec: on a non-empty input the loop
\* ends with the work list empty and simplify returns
C8_EventuallyReturns ==
  (pc = "dp" /\ dp_points # <<>>) ~> (Returned /\ stack = <<>>)

C8_Witness ==
  /\ Returned
  /\ stack = <<>>
  /\ Len(keep_elem_vec) >= 4
  /\ \A i \in 1..Len(keep_elem_vec) : keep_elem_vec[i]

DiscardedIn(keep, i) == i < Len(keep) /\ ~keep[i + 1]

Discarded(i) == DiscardedIn(keep_elem_vec, i)

Retained(i) == i < Len(keep_elem_vec) /\ keep_elem_vec[i + 1]

\* C9: the ends of every range on the work list, and of the range an
\* iteration processes, are never marked discarded, index 0 and the last
\* index stay retained, and once the work list is empty every discarded
\* index lies between two consecutive retained indices whose chord is
\* within the tolerance of its point.
C9_ReducerInvariant ==
  /\ [](pc = "dp" =>
          \A k \in 1..Len(stack) : ~Discarded(stack[k][1]) /\ ~Discarded(stack[k][2]))
  /\ [][(pc = "dp" /\ stack # <<>>) =>
          /\ ~DiscardedIn(keep_elem_vec', StackTop(stack)[1])
          /\ ~DiscardedIn(keep_elem_vec', StackTop(stack)[2])]_vars
  /\ []((pc \in {"dp", "done"} /\ keep_elem_vec # <<>>) =>
          (Retained(0) /\ Retained(Len(keep_elem_vec) - 1)))
  /\ []((pc \in {"dp", "done"} /\ stack = <<>>) =>
          \A i \in 0..(Len(keep_elem_vec) - 1) :
             Discarded(i) =>
               \E a \in 0..(i - 1), b \in (i + 1)..(Len(keep_elem_vec) - 1) :
                  /\ Retained(a)
                  /\ Retained(b)
                  /\ \A j \in (a + 1)..(b - 1) : Discarded(j)
                  /\ ~Exceeds(sq_seg_dist(dp_points[i + 1], dp_points[a + 1], dp_points[b + 1]),
                              SqTolerance(tolerance)))

C9_Witness ==
  /\ Returned
  /\ stack = <<>>
  /\ Len(keep_elem_vec) = 4
  /\ \E i, j \in 1..2 : i # j /\ Discarded(i) /\ Retained(j)
  /\ \E i \in 1..2 : Discarded(i) /\ sq_seg_dist(dp_points[i + 1], dp_points[1], dp_points[4])[1] > 0

\* the filter of simplify_radial_dist with the true squared distance
RECURSIVE TrueRadialFrom(_, _, _)
TrueRadialFrom(pts, i, sq_tolerance) ==
  IF i >= Len(pts) THEN <<>>
  ELSE (IF SqDist(pts[i], pts[i + 1]) > sq_tolerance THEN <<pts[i]>> ELSE <<>>)
       \o TrueRadialFrom(pts, i + 1, sq_tolerance)

\* C10: the radial pre-filter keeps the earlier point of each consecutive
\* pair exactly when the true squared distance of the pair exceeds the
\* squared tolerance; its output is those points in input order.
C10_RadialTrueDistance ==
  (pc # "start" /\ Len(points) > 2 /\ ~highest_quality) =>
     dp_points = TrueRadialFrom(points, 1, SqTolerance(tolerance))

====
